---- MODULE Spec2Model ----
(***************************************************************************)
(* Model of the NuGet artifact reconciliation engine                       *)
(* (lib/modules/manager/nuget/artifacts.ts): updateArtifacts,              *)
(* runDotnetRestore and createCachedNuGetConfigFile, run by one request or *)
(* by two concurrent requests over a shared workspace and cache root.      *)
(* One action per await point of the async functions.  The same module     *)
(* models resolveNpmrc, getRegistryNpmrcLines and getRegistryYarnrcScopes  *)
(* of the npm manager (SpecNpmrc, SpecScopes).                             *)
(***************************************************************************)
EXTENDS Integers, Sequences, FiniteSets, TLC

VARIABLES
    pc,                 \* per request: the await point it stands at
    packageFileName,    \* per request: the manifest path
    updatedDeps,        \* per request: the upgrade list
    config,             \* per request: isLockFileMaintenance, postUpdateOptions
    gitFiles,           \* lock file name -> content in the repository (getFiles)
    projectGraph,       \* per request: the dependents of its manifest in the repository
    localFiles,         \* lock file name -> content in the workspace (getLocalFiles)
    manifestWrites,     \* per request: number of writeLocalFile calls that completed
    cacheFiles,         \* cache path -> Null or the config document written there
    deps,               \* per request: result of getDependentPackageFiles
    configuredFound,   \* per request: result of getConfiguredRegistries, Null before
    existingLockFileContentMap,   \* per request: the 'before' snapshot
    newLockFileContentMap,        \* per request: the 'after' snapshot
    cmds,               \* per request: the command sequence handed to exec
    started,            \* per request: commands started so far, with the config they read
    steps,              \* per request: the await points passed, in order
    raised,             \* per request: the failure raised inside the try block, or Null
    result,             \* per request: the returned value, or NoResult
    thrown,             \* per request: the exception that reached the caller, or Null
    resolveCall,        \* the call of resolveNpmrc: its inputs, its position, its result
    scopeCall           \* the call of the scope extractions: upgrades and both results

vars == <<pc, packageFileName, updatedDeps, config, gitFiles, projectGraph, localFiles,
          manifestWrites, cacheFiles, deps, existingLockFileContentMap,
          newLockFileContentMap, cmds, started, steps, raised, result, thrown,
          resolveCall, scopeCall, configuredFound>>

\* The state of the NuGet requests, and the state of the npm calls.
nugetVars == <<pc, packageFileName, updatedDeps, config, gitFiles, projectGraph,
               localFiles, manifestWrites, cacheFiles, deps,
               existingLockFileContentMap, newLockFileContentMap, cmds, started,
               steps, raised, result, thrown, configuredFound>>
npmVars == <<resolveCall, scopeCall>>

----------------------------------------------------------------------------
(* Bounds and value domains *)

MaxDeps == 2            \* longest list returned by getDependentPackageFiles

Reqs == {1, 2}          \* request identities (at most two run concurrently)

Null == "<null>"        \* null / undefined

TEMPORARY_ERROR == "temporary-error"
NUGET_CENTRAL_FILE == "Directory.Packages.props"
MSBUILD_CENTRAL_FILE == "Packages.props"
GLOBAL_JSON == "global.json"

\* A path is its sequence of segments: "a/app.csproj" is <<"a", "app.csproj">>.
Last(p) == p[Len(p)]
dirname(p) == SubSeq(p, 1, Len(p) - 1)
join(dir, base) == Append(dir, base)

Range(s) == { s[i] : i \in DOMAIN s }

\* All sequences over S of length at most n without a repeated element.
RECURSIVE DistinctSeqs(_, _)
DistinctSeqs(S, n) ==
    IF n = 0 THEN { <<>> }
    ELSE LET shorter == DistinctSeqs(S, n - 1)
         IN shorter \cup { Append(s, x) : s \in shorter, x \in S }

\* Manifests a request may name.
ManifestNames ==
    { <<"a", "app.csproj">>, <<"a", MSBUILD_CENTRAL_FILE>>, <<GLOBAL_JSON>>,
      <<"a", GLOBAL_JSON>>, <<"README.md">> }

\* Project files the dependency graph may return; two of them share a directory.
DepNames == { <<"a", "app.csproj">>, <<"a", "tests.csproj">>, <<"b", "lib.FSPROJ">> }

\* The lists getDependentPackageFiles may return: distinct names, each with a leaf flag.
DepLists ==
    { [i \in 1..Len(names) |-> [name |-> names[i], isLeaf |-> leaf[names[i]]]] :
        names \in DistinctSeqs(DepNames, MaxDeps), leaf \in [DepNames -> BOOLEAN] }

\* Lock file contents in the repository: absent, empty, or some text.
GitContents == {Null, "", "v1"}
\* What the toolchain may leave in place of a lock file: nothing, or new text.
ToolchainContents == {Null, "v2"}

\* Failures: a message and an optional captured standard output.
NoErr == [message |-> Null, stdout |-> Null]
Errs ==
    { [message |-> TEMPORARY_ERROR, stdout |-> "NU1101"],
      [message |-> "restore failed", stdout |-> Null],
      [message |-> "restore failed", stdout |-> ""],
      [message |-> "restore failed", stdout |-> "NU1101"] }

\* Upgrades: a dependency name and its candidate registry URLs.
Upgrade(n, urls) == [depName |-> n, registryUrls |-> urls]
UpdatedDepsChoices ==
    { <<>>,
      << Upgrade("Serilog", <<"https://r1", "https://api.nuget.org">>),
         Upgrade("Moq", <<"", "https://r1">>) >> }

\* Registries found in the manifest's own nuget.config, or Null when there is none.
Registry(u) == [url |-> u]
ConfiguredChoices == { Null, << Registry("https://r1"), Registry("https://r1") >> }

\* Values of a request's result: pending, null, or a list of outcomes.
Pending == [kind |-> "pending", items |-> <<>>]
NullResult == [kind |-> "null", items |-> <<>>]
ListResult(s) == [kind |-> "list", items |-> s]
Addition(p, c) == [file |-> [type |-> "addition", path |-> p, contents |-> c]]
ArtifactError(l, e) == [artifactError |-> [lockFile |-> l, stderr |-> e]]
IsAddition(x) == "file" \in DOMAIN x
IsArtifactError(x) == "artifactError" \in DOMAIN x

----------------------------------------------------------------------------
(* Pure parts of artifacts.ts *)

\* !!val
Truthy(v) == v # Null /\ v # ""

\* regEx(/(?:cs|vb|fs)proj$/i).test(packageFileName), on the names of the model
IsProjectFile(p) == Last(p) \in {"app.csproj", "tests.csproj", "lib.FSPROJ"}

isCentralManagement(p) ==
    \/ p = <<NUGET_CENTRAL_FILE>>
    \/ p = <<MSBUILD_CENTRAL_FILE>>
    \/ (Len(p) > 1 /\ Last(p) = NUGET_CENTRAL_FILE)
    \/ (Len(p) > 1 /\ Last(p) = MSBUILD_CENTRAL_FILE)

isGlobalJson(p) == p = <<GLOBAL_JSON>>

\* The file type gate of updateArtifacts.
Applicable(p) == isCentralManagement(p) \/ isGlobalJson(p) \/ IsProjectFile(p)

getSiblingFileName(fileName, siblingName) == join(dirname(fileName), siblingName)

\* deps.filter((d) => d.isLeaf).map((d) => d.name)
RECURSIVE PackageFiles(_)
PackageFiles(ds) ==
    IF ds = <<>> THEN <<>>
    ELSE IF ds[1].isLeaf THEN <<ds[1].name>> \o PackageFiles(Tail(ds))
    ELSE PackageFiles(Tail(ds))

\* Mutant of LockFileNames: the names are taken from the leaf files only.
LockFileNames_LeafOnly(ds) ==
    [i \in 1..Len(PackageFiles(ds)) |->
        getSiblingFileName(PackageFiles(ds)[i], "packages.lock.json")]

\* deps.map((f) => getSiblingFileName(f.name, 'packages.lock.json'))
LockFileNames(ds) ==
    [i \in 1..Len(ds) |-> getSiblingFileName(ds[i].name, "packages.lock.json")]

AllLockNames == { getSiblingFileName(n, "packages.lock.json") : n \in DepNames }

\* getFiles / getLocalFiles: name -> content or Null, for the names asked.
ReadAll(fs, names) == [n \in Range(names) |-> fs[n]]

\* Mutant of HasLockFileContent: tests for null instead of truthiness.
HasLockFileContent_NotNull(m) == \E n \in DOMAIN m : m[n] # Null

\* Object.values(existingLockFileContentMap).some((val) => !!val)
HasLockFileContent(m) == \E n \in DOMAIN m : Truthy(m[n])

\* Mutant of NothingToUpdate: the maintenance flag is not looked at.
NothingToUpdate_IgnoresMaintenance(ud, cfg) == Len(ud) = 0

\* updatedDeps.length === 0 && config.isLockFileMaintenance !== true
NothingToUpdate(ud, cfg) == Len(ud) = 0 /\ cfg.isLockFileMaintenance # TRUE

\* names.join(', '): the names with a separator between neighbours
RECURSIVE Join(_)
Join(names) ==
    IF Len(names) = 0 THEN <<>>
    ELSE IF Len(names) = 1 THEN <<names[1]>>
    ELSE <<names[1], <<", ">>>> \o Join(Tail(names))

\* The loop over lockFileNames that fills retArray.
RECURSIVE RetArray(_, _, _)
RetArray(names, before, after) ==
    IF names = <<>> THEN <<>>
    ELSE LET lockFileName == names[1]
             rest == RetArray(Tail(names), before, after)
         IN IF before[lockFileName] = after[lockFileName] THEN rest
            ELSE IF Truthy(after[lockFileName])
                 THEN <<Addition(lockFileName, after[lockFileName])>> \o rest
            ELSE rest

\* Mutant of DiffResult: retArray is returned as it is.
DiffResult_AlwaysList(names, before, after) ==
    ListResult(RetArray(names, before, after))

\* return retArray.length > 0 ? retArray : null
DiffResult(names, before, after) ==
    LET retArray == RetArray(names, before, after)
    IN IF Len(retArray) > 0 THEN ListResult(retArray) ELSE NullResult

\* Mutant of Catch: the temporary-failure test is missing.
Catch_Swallow(err, names) ==
    [throw |-> NoErr,
     ret |-> ListResult(<< ArtifactError(Join(names),
                IF err.stdout # Null THEN err.stdout ELSE err.message) >>)]

\* Mutant of Catch: stderr is always the message.
Catch_MessageOnly(err, names) ==
    IF err.message = TEMPORARY_ERROR
    THEN [throw |-> err, ret |-> Pending]
    ELSE [throw |-> NoErr,
          ret |-> ListResult(<< ArtifactError(Join(names), err.message) >>)]

\* Mutant of Catch: the error is appended to Additions collected so far.
Catch_KeepsAdditions(err, names) ==
    IF err.message = TEMPORARY_ERROR
    THEN [throw |-> err, ret |-> Pending]
    ELSE [throw |-> NoErr,
          ret |-> ListResult(<< Addition(names[1], "v2"),
                                ArtifactError(Join(names),
                     IF err.stdout # Null THEN err.stdout ELSE err.message) >>)]

\* The catch block: what is thrown on and what is returned for a caught failure.
Catch(err, names) ==
    IF err.message = TEMPORARY_ERROR
    THEN [throw |-> err, ret |-> Pending]
    ELSE [throw |-> NoErr,
          ret |-> ListResult(<< ArtifactError(Join(names),
                     IF err.stdout # Null THEN err.stdout ELSE err.message) >>)]

\* Array.from(new Set(seq)): the first occurrence of each element, in order
RECURSIVE Dedup(_, _)
Dedup(seq, seen) ==
    IF seq = <<>> THEN <<>>
    ELSE IF seq[1] \in seen THEN Dedup(Tail(seq), seen)
    ELSE <<seq[1]>> \o Dedup(Tail(seq), seen \cup {seq[1]})

\* (updatedDeps ?? []).flatMap((d) => d.registryUrls ?? [])
RECURSIVE FlatRegistryUrls(_)
FlatRegistryUrls(ud) ==
    IF ud = <<>> THEN <<>> ELSE ud[1].registryUrls \o FlatRegistryUrls(Tail(ud))

CombinedRegistryUrls(ud) == Dedup(FlatRegistryUrls(ud), {})

getDefaultRegistries == << Registry("https://api.nuget.org/v3/index.json") >>

\* The first loop of createCachedNuGetConfigFile, over the configured registries.
RECURSIVE AddConfigured(_, _)
AddConfigured(regs, urlSet) ==
    IF regs = <<>> THEN <<>>
    ELSE IF regs[1].url # "" /\ regs[1].url \notin urlSet
         THEN <<regs[1]>> \o AddConfigured(Tail(regs), urlSet \cup {regs[1].url})
    ELSE AddConfigured(Tail(regs), urlSet)

\* Mutant of AddAdditional: urlSet is not asked.
RECURSIVE AddAdditional_NoUrlSet(_, _)
AddAdditional_NoUrlSet(urls, urlSet) ==
    IF urls = <<>> THEN <<>>
    ELSE IF urls[1] = "" THEN AddAdditional_NoUrlSet(Tail(urls), urlSet)
    ELSE <<Registry(urls[1])>> \o AddAdditional_NoUrlSet(Tail(urls), urlSet)

\* The second loop, over additionalRegistryUrls.
RECURSIVE AddAdditional(_, _)
AddAdditional(urls, urlSet) ==
    IF urls = <<>> THEN <<>>
    ELSE IF urls[1] = "" THEN AddAdditional(Tail(urls), urlSet)
    ELSE IF urls[1] \notin urlSet
         THEN <<Registry(urls[1])>> \o AddAdditional(Tail(urls), urlSet \cup {urls[1]})
    ELSE AddAdditional(Tail(urls), urlSet)

\* combinedRegistries of createCachedNuGetConfigFile
CombinedRegistries(configured, additionalRegistryUrls) ==
    LET configuredRegistries ==
            IF configured # Null THEN configured ELSE getDefaultRegistries
        first == AddConfigured(configuredRegistries, {})
    IN first \o AddAdditional(additionalRegistryUrls,
                              { first[i].url : i \in DOMAIN first })

\* privateCacheDir(): one directory for the whole run of the program
privateCacheDir == <<"tmp", "renovate", "cache", "__renovate-private-cache">>

\* upath.join(privateCacheDir(), 'nuget')
NugetCacheDir == join(privateCacheDir, "nuget")

\* upath.join(nugetCacheDir, `nuget.config`)
CachedNugetConfigFile(nugetCacheDir) == join(nugetCacheDir, "nuget.config")

CachePaths == { CachedNugetConfigFile(NugetCacheDir) }

\* The commands of runDotnetRestore.
RestoreCmd(fileName, nugetConfigFile) ==
    [tool |-> "dotnet restore", file |-> fileName, forceEvaluate |-> TRUE,
     configfile |-> nugetConfigFile]
WorkloadRestoreCmd(nugetConfigFile) ==
    [tool |-> "dotnet workload restore", file |-> <<>>, forceEvaluate |-> FALSE,
     configfile |-> nugetConfigFile]

\* Mutant of BuildCmds: push instead of unshift.
BuildCmds_Push(dependentPackageFileNames, cfg, nugetConfigFile) ==
    LET restores == [i \in 1..Len(dependentPackageFileNames) |->
                        RestoreCmd(dependentPackageFileNames[i], nugetConfigFile)]
    IN IF "dotnetWorkloadRestore" \in cfg.postUpdateOptions
       THEN restores \o <<WorkloadRestoreCmd(nugetConfigFile)>>
       ELSE restores

\* cmds of runDotnetRestore: the map over the files, then the unshift.
BuildCmds(dependentPackageFileNames, cfg, nugetConfigFile) ==
    LET restores == [i \in 1..Len(dependentPackageFileNames) |->
                        RestoreCmd(dependentPackageFileNames[i], nugetConfigFile)]
    IN IF "dotnetWorkloadRestore" \in cfg.postUpdateOptions
       THEN <<WorkloadRestoreCmd(nugetConfigFile)>> \o restores
       ELSE restores

----------------------------------------------------------------------------
(* State *)

Configs == [isLockFileMaintenance : BOOLEAN,
            postUpdateOptions : { {}, {"dotnetWorkloadRestore"} }]

NoFile == [writer |-> 0, registries |-> <<>>]
NoRaise == [err |-> NoErr, at |-> "none"]

\* Lock files of the repository before any request runs.
GitChoices ==
    { g \in [AllLockNames -> GitContents] : g[<<"b", "packages.lock.json">>] # "" }

\* The calls made inside the try block of updateArtifacts.
InBoundary(at) ==
    at \in {"writeLocalFile", "runDotnetRestore", "exec", "getLocalFiles"}

Set(f, r, v) == [f EXCEPT ![r] = v]

\* One input per request: drawn from S for a request that is made, dflt otherwise.
Inputs(active, S, dflt) ==
    { f \in [Reqs -> S \cup {dflt}] :
        /\ \A r \in active : f[r] \in S
        /\ \A r \in Reqs \ active : f[r] = dflt }

\* The state in which the requests of `active` have been made and none has run.
InitWith(active, manifests, upgrades, configs, gits, graphs) ==
    /\ pc = [r \in Reqs |-> IF r \in active THEN "start" ELSE "idle"]
    /\ packageFileName \in Inputs(active, manifests, <<"README.md">>)
    /\ updatedDeps \in Inputs(active, upgrades, <<>>)
    /\ config \in Inputs(active, configs,
                          [isLockFileMaintenance |-> FALSE, postUpdateOptions |-> {}])
    /\ gitFiles \in gits
    /\ projectGraph \in Inputs(active, graphs, <<>>)
    /\ localFiles = gitFiles
    /\ manifestWrites = [r \in Reqs |-> 0]
    /\ cacheFiles = [p \in CachePaths |-> NoFile]
    /\ deps = [r \in Reqs |-> <<>>]
    /\ configuredFound = [r \in Reqs |-> Null]
    /\ existingLockFileContentMap = [r \in Reqs |-> <<>>]
    /\ newLockFileContentMap = [r \in Reqs |-> <<>>]
    /\ cmds = [r \in Reqs |-> <<>>]
    /\ started = [r \in Reqs |-> <<>>]
    /\ steps = [r \in Reqs |-> <<>>]
    /\ raised = [r \in Reqs |-> NoRaise]
    /\ result = [r \in Reqs |-> Pending]
    /\ thrown = [r \in Reqs |-> NoErr]

\* No call of resolveNpmrc or of the scope extractions is made.
NoResolveCall == [pc |-> "idle"]
NoScopeCall == [pc |-> "idle"]
NoNpmCalls == resolveCall = NoResolveCall /\ scopeCall = NoScopeCall

\* One request: every input of the project file a/app.csproj, and every
\* manifest name with one input that passes both gates.
Init ==
    /\ \/ InitWith({1}, { <<"a", "app.csproj">> }, UpdatedDepsChoices, Configs,
                   GitChoices, DepLists)
       \/ InitWith({1}, ManifestNames, UpdatedDepsChoices \ { <<>> },
                   { [isLockFileMaintenance |-> FALSE, postUpdateOptions |-> {}] },
                   { [n \in AllLockNames |-> "v1"] },
                   { << [name |-> <<"a", "app.csproj">>, isLeaf |-> TRUE] >> })
    /\ NoNpmCalls

----------------------------------------------------------------------------
(* How a call of updateArtifacts ends *)

Return(r, v) ==
    /\ result' = Set(result, r, v)
    /\ pc' = Set(pc, r, "done")
    /\ UNCHANGED thrown

\* Mutant of Propagate: the failure goes through the catch block.
Propagate_ThroughCatch(r, err, at) ==
    LET c == Catch(err, LockFileNames(deps[r]))
    IN /\ raised' = Set(raised, r, [err |-> err, at |-> at])
       /\ thrown' = Set(thrown, r, c.throw)
       /\ result' = Set(result, r, c.ret)
       /\ pc' = Set(pc, r, "done")

\* A failure outside the try block reaches the caller.
Propagate(r, err, at) ==
    /\ raised' = Set(raised, r, [err |-> err, at |-> at])
    /\ thrown' = Set(thrown, r, err)
    /\ pc' = Set(pc, r, "done")
    /\ UNCHANGED result

\* A failure inside the try block goes through the catch block.
Caught(r, err, at) ==
    LET c == Catch(err, LockFileNames(deps[r]))
    IN /\ raised' = Set(raised, r, [err |-> err, at |-> at])
       /\ thrown' = Set(thrown, r, c.throw)
       /\ result' = Set(result, r, c.ret)
       /\ pc' = Set(pc, r, "done")

----------------------------------------------------------------------------
(* updateArtifacts, one action per await point *)

\* Entry: the file type gate (lines 124-155).
Start(r) ==
    /\ pc[r] = "start"
    /\ IF Applicable(packageFileName[r])
       THEN /\ pc' = Set(pc, r, "getDependentPackageFiles")
            /\ UNCHANGED <<result, thrown>>
       ELSE Return(r, NullResult)
    /\ UNCHANGED <<resolveCall, scopeCall, configuredFound, packageFileName, updatedDeps, config, gitFiles,
                   projectGraph, localFiles,
                   manifestWrites, cacheFiles, deps, existingLockFileContentMap,
                   newLockFileContentMap, cmds, started, steps, raised>>

\* await getDependentPackageFiles(...) resolves (lines 157-171).
GetDependentPackageFiles(r) ==
    /\ pc[r] = "getDependentPackageFiles"
    /\ deps' = Set(deps, r, projectGraph[r])
    /\ steps' = Set(steps, r, Append(steps[r], "getDependentPackageFiles"))
    /\ pc' = Set(pc, r, "getFiles")
    /\ UNCHANGED <<resolveCall, scopeCall, configuredFound, packageFileName, updatedDeps, config, gitFiles,
                   projectGraph, localFiles,
                   manifestWrites, cacheFiles, existingLockFileContentMap,
                   newLockFileContentMap, cmds, started, raised, result, thrown>>

\* await getDependentPackageFiles(...) rejects.
GetDependentPackageFilesFails(r) ==
    /\ pc[r] = "getDependentPackageFiles"
    /\ steps' = Set(steps, r, Append(steps[r], "getDependentPackageFiles"))
    /\ \E err \in Errs : Propagate(r, err, "getDependentPackageFiles")
    /\ UNCHANGED <<resolveCall, scopeCall, configuredFound, packageFileName, updatedDeps, config, gitFiles,
                   projectGraph, localFiles,
                   manifestWrites, cacheFiles, deps, existingLockFileContentMap,
                   newLockFileContentMap, cmds, started>>

\* await getFiles(lockFileNames) resolves; the two gates follow without
\* another await (lines 173-192).
GetFiles(r) ==
    /\ pc[r] = "getFiles"
    /\ LET before == ReadAll(gitFiles, LockFileNames(deps[r]))
       IN /\ existingLockFileContentMap' = Set(existingLockFileContentMap, r, before)
          /\ IF ~HasLockFileContent(before) THEN Return(r, NullResult)
             ELSE IF NothingToUpdate(updatedDeps[r], config[r])
                  THEN Return(r, NullResult)
             ELSE /\ pc' = Set(pc, r, "writeLocalFile")
                  /\ UNCHANGED <<result, thrown>>
    /\ steps' = Set(steps, r, Append(steps[r], "getFiles"))
    /\ UNCHANGED <<resolveCall, scopeCall, configuredFound, packageFileName, updatedDeps, config, gitFiles,
                   projectGraph, localFiles,
                   manifestWrites, cacheFiles, deps, newLockFileContentMap, cmds,
                   started, raised>>

\* await getFiles(lockFileNames) rejects.
GetFilesFails(r) ==
    /\ pc[r] = "getFiles"
    /\ steps' = Set(steps, r, Append(steps[r], "getFiles"))
    /\ \E err \in Errs : Propagate(r, err, "getFiles")
    /\ UNCHANGED <<resolveCall, scopeCall, configuredFound, packageFileName, updatedDeps, config, gitFiles,
                   projectGraph, localFiles,
                   manifestWrites, cacheFiles, deps, existingLockFileContentMap,
                   newLockFileContentMap, cmds, started>>

\* await writeLocalFile(packageFileName, newPackageFileContent) resolves (line 194).
WriteLocalFile(r) ==
    /\ pc[r] = "writeLocalFile"
    /\ manifestWrites' = Set(manifestWrites, r, manifestWrites[r] + 1)
    /\ steps' = Set(steps, r, Append(steps[r], "writeLocalFile"))
    /\ pc' = Set(pc, r, "runDotnetRestore")
    /\ UNCHANGED <<resolveCall, scopeCall, configuredFound, packageFileName, updatedDeps, config, gitFiles,
                   projectGraph, localFiles,
                   cacheFiles, deps, existingLockFileContentMap,
                   newLockFileContentMap, cmds, started, raised, result, thrown>>

\* await writeLocalFile(...) rejects.
WriteLocalFileFails(r) ==
    /\ pc[r] = "writeLocalFile"
    /\ steps' = Set(steps, r, Append(steps[r], "writeLocalFile"))
    /\ \E err \in Errs : Caught(r, err, "writeLocalFile")
    /\ UNCHANGED <<resolveCall, scopeCall, configuredFound, packageFileName, updatedDeps, config, gitFiles,
                   projectGraph, localFiles,
                   manifestWrites, cacheFiles, deps, existingLockFileContentMap,
                   newLockFileContentMap, cmds, started>>

\* Mutant of RunDotnetRestore: the command list is handed to exec before the
\* config document is written.
RunDotnetRestore_ConfigNotWritten(r) ==
    /\ pc[r] = "runDotnetRestore"
    /\ cmds' = Set(cmds, r,
                   BuildCmds(PackageFiles(deps[r]), config[r],
                             CachedNugetConfigFile(NugetCacheDir)))
    /\ steps' = Set(steps, r, Append(steps[r], "runDotnetRestore"))
    /\ pc' = Set(pc, r, "exec")
    /\ UNCHANGED <<resolveCall, scopeCall, configuredFound, packageFileName, updatedDeps, config, gitFiles,
                   projectGraph, localFiles, cacheFiles,
                   manifestWrites, deps, existingLockFileContentMap,
                   newLockFileContentMap, started, raised, result, thrown>>

\* runDotnetRestore up to the call of exec: createCachedNuGetConfigFile writes
\* the config document and the command list is built (lines 80-113, 35-72).
\* `configured` is what getConfiguredRegistries returns.
RunDotnetRestoreWith(r, configured) ==
    /\ pc[r] = "runDotnetRestore"
    /\ LET nugetConfigFile == CachedNugetConfigFile(NugetCacheDir)
       IN /\ configuredFound' = Set(configuredFound, r, configured)
          /\ cacheFiles' = [cacheFiles EXCEPT ![nugetConfigFile] =
                 [writer |-> r,
                  registries |-> CombinedRegistries(configured,
                                     CombinedRegistryUrls(updatedDeps[r]))]]
          /\ cmds' = Set(cmds, r,
                         BuildCmds(PackageFiles(deps[r]), config[r], nugetConfigFile))
    /\ steps' = Set(steps, r, Append(steps[r], "runDotnetRestore"))
    /\ pc' = Set(pc, r, "exec")
    /\ UNCHANGED <<resolveCall, scopeCall, packageFileName, updatedDeps, config, gitFiles,
                   projectGraph, localFiles,
                   manifestWrites, deps, existingLockFileContentMap,
                   newLockFileContentMap, started, raised, result, thrown>>

\* The same with the registries that the manifests of the repository configure.
RunDotnetRestore(r) ==
    \E configured \in ConfiguredChoices : RunDotnetRestoreWith(r, configured)

\* getConfiguredRegistries, ensureDir, outputCacheFile or findGlobalJson rejects.
RunDotnetRestoreFails(r) ==
    /\ pc[r] = "runDotnetRestore"
    /\ steps' = Set(steps, r, Append(steps[r], "runDotnetRestore"))
    /\ \E err \in Errs : Caught(r, err, "runDotnetRestore")
    /\ UNCHANGED <<resolveCall, scopeCall, configuredFound, packageFileName, updatedDeps, config, gitFiles,
                   projectGraph, localFiles,
                   manifestWrites, cacheFiles, deps, existingLockFileContentMap,
                   newLockFileContentMap, cmds, started>>

\* What one command of the toolchain leaves in the workspace: a restore may
\* rewrite or remove one lock file, a workload restore touches none.
ToolchainEffect(cmd, files) ==
    IF cmd.tool = "dotnet restore"
    THEN { files } \cup
         { [files EXCEPT ![n] = c] : n \in AllLockNames, c \in ToolchainContents }
    ELSE { files }

\* exec runs the next command of the list: it reads the config document at the
\* path the command names.
ExecCmd(r) ==
    /\ pc[r] = "exec"
    /\ Len(started[r]) < Len(cmds[r])
    /\ LET cmd == cmds[r][Len(started[r]) + 1]
       IN /\ started' = Set(started, r,
                 Append(started[r], [cmd |-> cmd, config |-> cacheFiles[cmd.configfile]]))
          /\ localFiles' \in ToolchainEffect(cmd, localFiles)
    /\ UNCHANGED <<resolveCall, scopeCall, configuredFound, pc, packageFileName, updatedDeps, config,
                   gitFiles, projectGraph,
                   manifestWrites, cacheFiles, deps, existingLockFileContentMap,
                   newLockFileContentMap, cmds, steps, raised, result, thrown>>

\* The next command fails: exec rejects and runs none of the later commands.
ExecCmdFails(r) ==
    /\ pc[r] = "exec"
    /\ Len(started[r]) < Len(cmds[r])
    /\ LET cmd == cmds[r][Len(started[r]) + 1]
       IN /\ started' = Set(started, r,
                 Append(started[r], [cmd |-> cmd, config |-> cacheFiles[cmd.configfile]]))
          /\ localFiles' \in ToolchainEffect(cmd, localFiles)
    /\ steps' = Set(steps, r, Append(steps[r], "exec"))
    /\ \E err \in Errs : Caught(r, err, "exec")
    /\ UNCHANGED <<resolveCall, scopeCall, configuredFound, packageFileName, updatedDeps, config, gitFiles,
                   projectGraph,
                   manifestWrites, cacheFiles, deps, existingLockFileContentMap,
                   newLockFileContentMap, cmds>>

\* await exec(cmds, execOptions) resolves after the last command (line 115).
ExecReturns(r) ==
    /\ pc[r] = "exec"
    /\ Len(started[r]) = Len(cmds[r])
    /\ steps' = Set(steps, r, Append(steps[r], "exec"))
    /\ pc' = Set(pc, r, "getLocalFiles")
    /\ UNCHANGED <<resolveCall, scopeCall, configuredFound, packageFileName, updatedDeps, config, gitFiles,
                   projectGraph, localFiles,
                   manifestWrites, cacheFiles, deps, existingLockFileContentMap,
                   newLockFileContentMap, cmds, started, raised, result, thrown>>

\* await getLocalFiles(lockFileNames) resolves; the diff and the return follow
\* without another await (lines 205-226).
GetLocalFiles(r) ==
    /\ pc[r] = "getLocalFiles"
    /\ LET lockFileNames == LockFileNames(deps[r])
           after == ReadAll(localFiles, lockFileNames)
       IN /\ newLockFileContentMap' = Set(newLockFileContentMap, r, after)
          /\ Return(r, DiffResult(lockFileNames, existingLockFileContentMap[r], after))
    /\ steps' = Set(steps, r, Append(steps[r], "getLocalFiles"))
    /\ UNCHANGED <<resolveCall, scopeCall, configuredFound, packageFileName, updatedDeps, config, gitFiles,
                   projectGraph, localFiles,
                   manifestWrites, cacheFiles, deps, existingLockFileContentMap,
                   cmds, started, raised>>

\* await getLocalFiles(lockFileNames) rejects.
GetLocalFilesFails(r) ==
    /\ pc[r] = "getLocalFiles"
    /\ steps' = Set(steps, r, Append(steps[r], "getLocalFiles"))
    /\ \E err \in Errs : Caught(r, err, "getLocalFiles")
    /\ UNCHANGED <<resolveCall, scopeCall, configuredFound, packageFileName, updatedDeps, config, gitFiles,
                   projectGraph, localFiles,
                   manifestWrites, cacheFiles, deps, existingLockFileContentMap,
                   newLockFileContentMap, cmds, started>>

Next ==
    \E r \in Reqs :
        \/ Start(r)
        \/ GetDependentPackageFiles(r)
        \/ GetDependentPackageFilesFails(r)
        \/ GetFiles(r)
        \/ GetFilesFails(r)
        \/ WriteLocalFile(r)
        \/ WriteLocalFileFails(r)
        \/ RunDotnetRestore(r)
        \/ RunDotnetRestoreFails(r)
        \/ ExecCmd(r)
        \/ ExecCmdFails(r)
        \/ ExecReturns(r)
        \/ GetLocalFiles(r)
        \/ GetLocalFilesFails(r)

Spec == Init /\ [][Next]_vars

\* Two requests for different manifests, scheduled concurrently: each passes
\* both gates and has one leaf project of its own.
InitConc ==
    /\ InitWith({1, 2}, { <<"a", "app.csproj">>, <<GLOBAL_JSON>> },
                UpdatedDepsChoices \ { <<>> },
                { [isLockFileMaintenance |-> FALSE, postUpdateOptions |-> {}] },
                { [n \in AllLockNames |-> "v1"] },
                { << [name |-> <<"a", "app.csproj">>, isLeaf |-> TRUE] >>,
                  << [name |-> <<"b", "lib.FSPROJ">>, isLeaf |-> TRUE] >> })
    /\ packageFileName[1] # packageFileName[2]
    /\ NoNpmCalls

SpecConc == InitConc /\ [][Next]_vars

----------------------------------------------------------------------------
(* Vocabulary of the properties *)

Called(r, call) == \E i \in DOMAIN steps[r] : steps[r][i] = call
Failed(r, call) == raised[r].at = call
Completed(r, call) == Called(r, call) /\ ~Failed(r, call)

\* The lock file names the request watches, in watched order.
Watched(r) == LockFileNames(deps[r])

\* The before snapshot holds content for some watched lock file.
BeforeHasContent(r) ==
    \E i \in DOMAIN Watched(r) :
        /\ existingLockFileContentMap[r][Watched(r)[i]] # Null
        /\ existingLockFileContentMap[r][Watched(r)[i]] # ""

\* The request wrote nothing and ran nothing.
NoSideEffects(r) ==
    /\ manifestWrites[r] = 0
    /\ ~Called(r, "writeLocalFile")
    /\ \A p \in CachePaths : cacheFiles[p].writer # r
    /\ ~Called(r, "runDotnetRestore")
    /\ started[r] = <<>>

ReturnedNull(r) == pc[r] = "done" /\ result[r] = NullResult /\ thrown[r] = NoErr

----------------------------------------------------------------------------
(* Properties *)

\* C1: once the 'before' snapshot of an applicable manifest has been read and
\* holds content for no watched lock file, the request has returned null and
\* has written neither the manifest nor the config artifact and has run no
\* toolchain command.
C1_NoLockFileIsNoOp ==
    \A r \in Reqs :
        (Completed(r, "getFiles") /\ ~BeforeHasContent(r))
            => (ReturnedNull(r) /\ NoSideEffects(r))

\* C1 witness: a request with upgrades and dependents, none of whose lock files
\* has content, has returned.
C1_Witness ==
    \E r \in Reqs :
        /\ Completed(r, "getFiles") /\ ~BeforeHasContent(r)
        /\ Len(deps[r]) > 0 /\ Len(updatedDeps[r]) > 0
        /\ pc[r] = "done"

\* C2: with a lock file present and an empty upgrade list, a request without
\* the maintenance flag has returned null without writing the manifest or
\* running a command as soon as the snapshot is read; with the maintenance flag
\* it goes on: it calls writeLocalFile, and runDotnetRestore and exec after it
\* unless the call before fails.
C2_NoUpgradesIsNoOp ==
    \A r \in Reqs :
        (Completed(r, "getFiles") /\ BeforeHasContent(r) /\ Len(updatedDeps[r]) = 0)
            => IF config[r].isLockFileMaintenance
               THEN /\ pc[r] = "writeLocalFile" \/ Called(r, "writeLocalFile")
                    /\ Completed(r, "writeLocalFile")
                          => (pc[r] = "runDotnetRestore" \/ Called(r, "runDotnetRestore"))
                    /\ Completed(r, "runDotnetRestore")
                          => (pc[r] = "exec" \/ Called(r, "exec"))
               ELSE ReturnedNull(r) /\ NoSideEffects(r)

\* C2 witness: a request with a lock file present, no upgrades and no
\* maintenance flag has returned.
C2_Witness ==
    \E r \in Reqs :
        /\ Completed(r, "getFiles") /\ BeforeHasContent(r)
        /\ Len(updatedDeps[r]) = 0 /\ ~config[r].isLockFileMaintenance
        /\ pc[r] = "done"

\* C3: a failure raised by the manifest write, the toolchain or the 'after'
\* read whose message is the temporary-failure marker reaches the caller as
\* the same failure, and the request returns no value.
C3_TemporaryErrorRethrown ==
    \A r \in Reqs :
        (InBoundary(raised[r].at) /\ raised[r].err.message = TEMPORARY_ERROR)
            => (thrown[r] = raised[r].err /\ result[r] = Pending)

\* C3 witness: the second command of a request failed with the marker.
C3_Witness ==
    \E r \in Reqs :
        /\ Failed(r, "exec") /\ Len(started[r]) = 2
        /\ raised[r].err.message = TEMPORARY_ERROR

\* C4: any other failure inside the boundary gives a one-element list holding
\* an ArtifactError: its lockFile is the watched names in watched order with a
\* separator between neighbours, its stderr is the failure's captured output
\* when there is one and its message otherwise; nothing reaches the caller.
C4_OtherErrorIsArtifactError ==
    \A r \in Reqs :
        (InBoundary(raised[r].at) /\ raised[r].err.message # TEMPORARY_ERROR)
            => /\ thrown[r] = NoErr
               /\ result[r].kind = "list"
               /\ Len(result[r].items) = 1
               /\ IsArtifactError(result[r].items[1])
               /\ LET e == result[r].items[1].artifactError
                      n == Len(Watched(r))
                  IN /\ Len(e.lockFile) = 2 * n - 1
                     /\ \A i \in 1..n : e.lockFile[2 * i - 1] = Watched(r)[i]
                     /\ \A i \in 1..(n - 1) : e.lockFile[2 * i] = <<", ">>
                     /\ e.stderr = IF raised[r].err.stdout = Null
                                   THEN raised[r].err.message
                                   ELSE raised[r].err.stdout

\* C4 witness: the 'after' read of a request watching two names failed with a
\* failure that carries an empty captured output.
C4_Witness ==
    \E r \in Reqs :
        /\ Failed(r, "getLocalFiles") /\ Len(Watched(r)) = 2
        /\ raised[r].err.message # TEMPORARY_ERROR /\ raised[r].err.stdout = ""

\* The toolchain sequence of the request completed and the 'after' snapshot
\* was read.
Diffed(r) == Completed(r, "exec") /\ Completed(r, "getLocalFiles")

Before(r, n) == existingLockFileContentMap[r][n]
After(r, n) == newLockFileContentMap[r][n]

\* The result names the lock file n, as an Addition or in an ArtifactError.
Surfaces(r, n) ==
    /\ result[r].kind = "list"
    /\ \E i \in DOMAIN result[r].items :
          LET x == result[r].items[i]
          IN IF IsAddition(x) THEN x.file.path = n
             ELSE \E j \in DOMAIN x.artifactError.lockFile :
                      x.artifactError.lockFile[j] = n

\* C5: a watched lock file with content before and absent after is surfaced
\* by the result of the run.
C5_MissingAfterIsSurfaced ==
    \A r \in Reqs :
        Diffed(r) =>
            \A n \in Range(Watched(r)) :
                (Before(r, n) # Null /\ Before(r, n) # "" /\ After(r, n) = Null)
                    => Surfaces(r, n)

\* C6: every toolchain command of a request reads the config document that
\* the same request wrote.
C6_ConfigArtifactIsExclusive ==
    \A r \in Reqs :
        \A i \in DOMAIN started[r] : started[r][i].config.writer = r

\* The watched lock files whose content changed and is present after.
ChangedFiles(r) ==
    { n \in Range(Watched(r)) :
        Before(r, n) # After(r, n) /\ After(r, n) # Null /\ After(r, n) # "" }

\* The first position of n in the watched list.
FirstAt(r, n) ==
    CHOOSE i \in DOMAIN Watched(r) :
        Watched(r)[i] = n /\ \A j \in 1..(i - 1) : Watched(r)[j] # n

\* C7: after a completed toolchain sequence the result holds exactly one
\* Addition, with the path and the full 'after' content, for each changed
\* watched lock file, in watched order, and nothing else; one changed file
\* gives a one-element list.
C7_OneAdditionPerChangedFile ==
    \A r \in Reqs :
        Diffed(r) =>
            LET items == result[r].items
            IN /\ Len(items) = Cardinality(ChangedFiles(r))
               /\ \A i \in DOMAIN items :
                     /\ IsAddition(items[i])
                     /\ items[i].file.path \in ChangedFiles(r)
                     /\ items[i].file.contents = After(r, items[i].file.path)
               /\ \A i, j \in DOMAIN items :
                     i < j => FirstAt(r, items[i].file.path) < FirstAt(r, items[j].file.path)
               /\ Cardinality(ChangedFiles(r)) = 1 => Len(items) = 1

\* C8: no result is an empty list, and a completed run that leaves every
\* watched lock file as it was returns null.
C8_NeverEmptyList ==
    \A r \in Reqs :
        /\ result[r].kind = "list" => Len(result[r].items) >= 1
        /\ (Diffed(r) /\ \A n \in Range(Watched(r)) : Before(r, n) = After(r, n))
              => ReturnedNull(r)

\* C8 witness: a request ran a restore command, every watched lock file reads
\* as before, and the request has returned.
C8_Witness ==
    \E r \in Reqs :
        /\ Diffed(r) /\ Len(started[r]) > 0
        /\ \A n \in Range(Watched(r)) : Before(r, n) = After(r, n)
        /\ pc[r] = "done"

\* C9: a result is null, a list of Additions only, or one ArtifactError alone;
\* after a failure inside the boundary it holds no Addition.
C9_NoMixedResult ==
    \A r \in Reqs :
        /\ result[r].kind = "list" =>
              \/ \A i \in DOMAIN result[r].items : IsAddition(result[r].items[i])
              \/ Len(result[r].items) = 1 /\ IsArtifactError(result[r].items[1])
        /\ InBoundary(raised[r].at) =>
              \A i \in DOMAIN result[r].items : ~IsAddition(result[r].items[i])

\* C9 witness: a command failed after an earlier command had rewritten a
\* watched lock file, and the request returned a list.
C9_Witness ==
    \E r \in Reqs :
        /\ Failed(r, "exec") /\ Len(started[r]) > 1
        /\ result[r].kind = "list"
        /\ \E n \in Range(Watched(r)) :
              localFiles[n] # Before(r, n) /\ localFiles[n] = "v2"

\* The leaf dependent files of the request, in order.
LeafFiles(r) ==
    LET leaf == SelectSeq(deps[r], LAMBDA d : d.isLeaf)
    IN [i \in DOMAIN leaf |-> leaf[i].name]

WorkloadRestoreConfigured(r) == "dotnetWorkloadRestore" \in config[r].postUpdateOptions

\* The command list of a request that has built it.
CommandListAsSpecified(r) ==
    LET off == IF WorkloadRestoreConfigured(r) THEN 1 ELSE 0
    IN /\ Len(cmds[r]) = Len(LeafFiles(r)) + off
       /\ \A i \in DOMAIN LeafFiles(r) :
             /\ cmds[r][i + off].tool = "dotnet restore"
             /\ cmds[r][i + off].file = LeafFiles(r)[i]
             /\ cmds[r][i + off].forceEvaluate
       /\ WorkloadRestoreConfigured(r) => cmds[r][1].tool = "dotnet workload restore"
       /\ \A i \in DOMAIN cmds[r] :
             /\ cmds[r][i].configfile \in CachePaths
             /\ cacheFiles[cmds[r][i].configfile].writer = r

\* The commands started are the first commands of the list, in its order, and
\* the 'after' read comes only after all of them.
RunInListOrder(r) ==
    /\ Len(started[r]) <= Len(cmds[r])
    /\ \A i \in DOMAIN started[r] : started[r][i].cmd = cmds[r][i]
    /\ Called(r, "getLocalFiles") => Len(started[r]) = Len(cmds[r])

\* C10: the command list holds one restore per leaf file in leaf order, each
\* with the force-evaluate flag and the request's config path, after the
\* workload restore when it is configured; commands start one at a time in
\* list order, and once a command has failed no further command starts.
C10_CommandSequence ==
    /\ [](\A r \in Reqs :
            /\ Completed(r, "runDotnetRestore") => CommandListAsSpecified(r)
            /\ RunInListOrder(r))
    /\ [][\A r \in Reqs : Failed(r, "exec") => started'[r] = started[r]]_vars

\* C10 witness: with the workload restore configured and two leaf files, the
\* second restore failed after the first and the workload restore had run.
C10_Witness ==
    \E r \in Reqs :
        /\ WorkloadRestoreConfigured(r) /\ Len(LeafFiles(r)) = 2
        /\ Failed(r, "exec") /\ Len(started[r]) = 3

\* The sibling lock file of every file of a list of names, in order.
SiblingLocks(names) ==
    [i \in DOMAIN names |-> join(dirname(names[i]), "packages.lock.json")]

AllDependentFiles(r) == [i \in DOMAIN deps[r] |-> deps[r][i].name]

\* The names the request snapshots, diffs and reports are those of `names`.
WatchesExactly(r, names) ==
    /\ Completed(r, "getFiles")
          => DOMAIN existingLockFileContentMap[r] = Range(names)
    /\ Completed(r, "getLocalFiles")
          => DOMAIN newLockFileContentMap[r] = Range(names)
    /\ (InBoundary(raised[r].at) /\ result[r].kind = "list")
          => LET l == result[r].items[1].artifactError.lockFile
             IN /\ Len(l) = IF Len(names) = 0 THEN 0 ELSE 2 * Len(names) - 1
                /\ \A i \in DOMAIN names : l[2 * i - 1] = names[i]

\* C11 as stated: the watched lock file names are the siblings of the leaf
\* dependent files only.
C11_WatchedFromLeafFilesOnly ==
    \A r \in Reqs : WatchesExactly(r, SiblingLocks(LeafFiles(r)))

\* C11 as the code has it: the watched lock file names are the siblings of
\* all dependent files, leaf or not, in the order of the dependents; only the
\* restore commands are limited to the leaf files.
C11_WatchedFromAllDependents ==
    \A r \in Reqs :
        /\ WatchesExactly(r, SiblingLocks(AllDependentFiles(r)))
        /\ Completed(r, "runDotnetRestore") =>
              \A i \in DOMAIN cmds[r] :
                  cmds[r][i].tool = "dotnet restore"
                      => cmds[r][i].file \in Range(LeafFiles(r))

\* C11 witness: a request whose only lock file with content belongs to a
\* dependent that is no leaf has read both snapshots.
C11_Witness ==
    \E r \in Reqs :
        /\ Completed(r, "getLocalFiles")
        /\ \E i \in DOMAIN deps[r] :
              /\ ~deps[r][i].isLeaf
              /\ SiblingLocks(AllDependentFiles(r))[i] \notin Range(SiblingLocks(LeafFiles(r)))
              /\ SiblingLocks(AllDependentFiles(r))[i] \in DOMAIN newLockFileContentMap[r]

----------------------------------------------------------------------------
(* resolveNpmrc (npm/npmrc.ts) *)

MaxRepoLen == 4         \* longest repository .npmrc text, in tokens

\* A text is a sequence of tokens: the newline, and pieces of a line. Pieces
\* that follow one another without a newline between them form one line.
NL == "\n"
PL == "package-lock"                \* the text `package-lock`
KV == "save-exact=true"             \* a setting without variables
VAR == "_authToken=${NPM_TOKEN}"    \* a piece that holds `=${`
Tokens == {NL, PL, KV, VAR}

RECURSIVE TextsUpTo(_)
TextsUpTo(n) ==
    IF n = 0 THEN { <<>> }
    ELSE LET shorter == TextsUpTo(n - 1)
         IN shorter \cup { Append(t, x) : t \in shorter, x \in Tokens }

\* string | undefined | null
Undefined == [isString |-> FALSE, text |-> <<>>]
Str(t) == [isString |-> TRUE, text |-> t]
isString(v) == v.isString

\* text.includes(piece), for a piece that is a token
includes(t, piece) == \E i \in DOMAIN t : t[i] = piece

\* npmrc.endsWith('\n')
endsWithNewline(t) == Len(t) > 0 /\ t[Len(t)] = NL

\* Mutant of CallerPart: the newline is added without looking at the end.
CallerPart_AlwaysNewline(configNpmrc) ==
    LET npmrc == IF isString(configNpmrc) THEN configNpmrc.text ELSE <<>>
    IN IF Len(npmrc) # 0 THEN Append(npmrc, NL) ELSE npmrc

\* Lines 32-37: config.npmrc ?? '', with a newline added to a non-empty text
\* that does not end in one.
CallerPart(configNpmrc) ==
    LET npmrc == IF isString(configNpmrc) THEN configNpmrc.text ELSE <<>>
    IN IF Len(npmrc) # 0 /\ ~endsWithNewline(npmrc) THEN Append(npmrc, NL) ELSE npmrc

\* A match of /(^|\n)package-lock.*?(\n|$)/ can start at position i of t.
MatchesAt(t, i) ==
    \/ i = 1 /\ t[1] = PL
    \/ t[i] = NL /\ i + 1 <= Len(t) /\ t[i + 1] = PL

\* The last position of the match that starts at i: the first newline after
\* `package-lock`, or the end of the text.
MatchEnd(t, i) ==
    LET k == IF t[i] = NL THEN i + 1 ELSE i
        nls == { j \in (k + 1)..Len(t) : t[j] = NL }
    IN IF nls = {} THEN Len(t)
       ELSE CHOOSE j \in nls : \A j2 \in nls : j <= j2

\* repoNpmrc.replace(regEx(/(^|\n)package-lock.*?(\n|$)/g), '\n'): the matches
\* are found from left to right, each search starting where the last match ended.
RECURSIVE ReplacePackageLock(_, _)
ReplacePackageLock(t, i) ==
    IF i > Len(t) THEN <<>>
    ELSE IF MatchesAt(t, i)
         THEN <<NL>> \o ReplacePackageLock(t, MatchEnd(t, i) + 1)
    ELSE <<t[i]>> \o ReplacePackageLock(t, i + 1)

\* Lines 38-44.
StripPackageLock(repoNpmrc) ==
    IF includes(repoNpmrc, PL) THEN ReplacePackageLock(repoNpmrc, 1) ELSE repoNpmrc

\* text.split(newlineRegex): the lines of a text, at least one.
RECURSIVE split(_)
split(t) ==
    IF ~includes(t, NL) THEN << t >>
    ELSE LET k == CHOOSE j \in DOMAIN t : t[j] = NL /\ \A j2 \in 1..(j - 1) : t[j2] # NL
         IN << SubSeq(t, 1, k - 1) >> \o split(SubSeq(t, k + 1, Len(t)))

\* lines.join('\n')
RECURSIVE joinLines(_)
joinLines(lines) ==
    IF Len(lines) = 0 THEN <<>>
    ELSE IF Len(lines) = 1 THEN lines[1]
    ELSE lines[1] \o <<NL>> \o joinLines(Tail(lines))

\* Mutant of StripVariables: the exposeAllEnv flag is not looked at.
StripVariables_IgnoresFlag(repoNpmrc, exposeAllEnv) ==
    IF includes(repoNpmrc, VAR)
    THEN joinLines(SelectSeq(split(repoNpmrc), LAMBDA line : ~includes(line, VAR)))
    ELSE repoNpmrc

\* Lines 45-54.
StripVariables(repoNpmrc, exposeAllEnv) ==
    IF includes(repoNpmrc, VAR) /\ ~exposeAllEnv
    THEN joinLines(SelectSeq(split(repoNpmrc), LAMBDA line : ~includes(line, VAR)))
    ELSE repoNpmrc

\* The body of resolveNpmrc after findLocalSiblingOrParent has found a file
\* (lines 23-57); repoNpmrc is what readLocalFile gave.
MergeNpmrc(repoNpmrc, configNpmrc, npmrcMerge, exposeAllEnv) ==
    IF isString(repoNpmrc)
    THEN IF isString(configNpmrc) /\ ~npmrcMerge
         THEN configNpmrc
         ELSE Str(CallerPart(configNpmrc)
                  \o StripVariables(StripPackageLock(repoNpmrc.text), exposeAllEnv))
    ELSE Undefined

\* Mutant of NoRepoNpmrc: the caller text is normalised as in the merge branch.
NoRepoNpmrc_Normalised(configNpmrc) ==
    IF isString(configNpmrc)
    THEN Str(IF Len(configNpmrc.text) # 0 /\ ~endsWithNewline(configNpmrc.text)
             THEN Append(configNpmrc.text, NL) ELSE configNpmrc.text)
    ELSE Undefined

\* The branch of resolveNpmrc when no file is found (lines 58-60).
NoRepoNpmrc(configNpmrc) == IF isString(configNpmrc) THEN configNpmrc ELSE Undefined

\* The repository: no .npmrc, one that cannot be read, or one with a text.
NoNpmrcFile == [exists |-> FALSE, content |-> Undefined]
RepoNpmrcChoices ==
    { NoNpmrcFile, [exists |-> TRUE, content |-> Undefined] }
        \cup { [exists |-> TRUE, content |-> Str(t)] : t \in TextsUpTo(MaxRepoLen) }

\* config.npmrc of the caller: absent, empty, a text with or without a newline
\* at its end, or a text that an earlier merge produced.
ConfigNpmrcChoices ==
    { Undefined, Str(<<>>), Str(<<KV>>), Str(<<KV, NL>>), Str(<<NL>>),
      Str(<<KV, NL, VAR, NL>>) }

ResolveCalls ==
    [pc : {"findLocalSiblingOrParent"},
     repo : RepoNpmrcChoices,
     configNpmrc : ConfigNpmrcChoices,
     npmrcMerge : BOOLEAN,
     exposeAllEnv : BOOLEAN,
     npmrc : {Undefined},
     npmrcFileName : {Null}]

\* The NuGet part when no request is made.
NoNugetRequests ==
    InitWith({}, { <<"README.md">> }, { <<>> },
             { [isLockFileMaintenance |-> FALSE, postUpdateOptions |-> {}] },
             { [n \in AllLockNames |-> Null] }, { <<>> })

InitNpmrc ==
    /\ NoNugetRequests
    /\ resolveCall \in ResolveCalls
    /\ scopeCall = NoScopeCall

\* await findLocalSiblingOrParent(packageFile, '.npmrc') resolves (lines 20-22,
\* 58-61): without a file the call returns at once.
FindLocalSiblingOrParent ==
    /\ resolveCall.pc = "findLocalSiblingOrParent"
    /\ IF resolveCall.repo.exists
       THEN resolveCall' = [resolveCall EXCEPT !.pc = "readLocalFile",
                                               !.npmrcFileName = ".npmrc"]
       ELSE resolveCall' = [resolveCall EXCEPT !.pc = "done",
                               !.npmrc = NoRepoNpmrc(resolveCall.configNpmrc)]
    /\ UNCHANGED <<nugetVars, scopeCall>>

\* await readLocalFile(npmrcFileName, 'utf8') resolves (lines 23-57, 61).
ReadLocalFile ==
    /\ resolveCall.pc = "readLocalFile"
    /\ resolveCall' = [resolveCall EXCEPT !.pc = "done",
           !.npmrc = MergeNpmrc(resolveCall.repo.content, resolveCall.configNpmrc,
                                resolveCall.npmrcMerge, resolveCall.exposeAllEnv)]
    /\ UNCHANGED <<nugetVars, scopeCall>>

NextNpmrc == FindLocalSiblingOrParent \/ ReadLocalFile

SpecNpmrc == InitNpmrc /\ [][NextNpmrc]_vars

----------------------------------------------------------------------------
(* Properties of resolveNpmrc *)

ResolveDone == resolveCall.pc = "done"

\* A repository file was found and read, and its text was merged: there is
\* no caller text, or merging is enabled.
Merged ==
    /\ ResolveDone
    /\ resolveCall.repo.exists /\ resolveCall.repo.content.isString
    /\ ~resolveCall.configNpmrc.isString \/ resolveCall.npmrcMerge

RepoText == resolveCall.repo.content.text
CallerText == resolveCall.configNpmrc.text

\* The caller's part of a merged text: the caller text, and one newline after
\* it when it is not empty and does not end in a newline.
ExpectedCallerPart ==
    IF CallerText # <<>> /\ CallerText[Len(CallerText)] # NL
    THEN CallerText \o <<NL>>
    ELSE CallerText

\* The repository-derived part of a merged text: what follows the caller's part.
RepoDerived ==
    SubSeq(resolveCall.npmrc.text, Len(ExpectedCallerPart) + 1,
           Len(resolveCall.npmrc.text))

HasMarker(line) == \E i \in DOMAIN line : line[i] = VAR
SetsPackageLock(line) == line # <<>> /\ line[1] = PL

\* The lines of a text that hold something and do not set package-lock.
SettingLines(t) ==
    SelectSeq(split(t), LAMBDA line : line # <<>> /\ ~SetsPackageLock(line))

\* The lines of a text that hold something.
NonEmptyLines(t) == SelectSeq(split(t), LAMBDA line : line # <<>>)

\* C12 as stated: of a merged repository text, without the
\* expose-all-environment flag no line of the repository-derived part holds
\* the marker `=${` and every repository line without it is kept; with the
\* flag every repository line that holds the marker is kept unchanged.
C12_EveryOtherLineKept ==
    Merged =>
        IF ~resolveCall.exposeAllEnv
        THEN /\ \A i \in DOMAIN split(RepoDerived) : ~HasMarker(split(RepoDerived)[i])
             /\ NonEmptyLines(RepoDerived)
                    = SelectSeq(NonEmptyLines(RepoText), LAMBDA line : ~HasMarker(line))
        ELSE SelectSeq(NonEmptyLines(RepoDerived), HasMarker)
                    = SelectSeq(NonEmptyLines(RepoText), HasMarker)

\* C12, amended: the same, of the repository lines that do not set
\* package-lock: without the flag no line of the repository-derived part
\* holds the marker and the repository lines without it that do not set
\* package-lock are kept, in order; with the flag the repository lines that
\* hold the marker and do not set package-lock are kept unchanged, in order.
C12_InterpolationFilter ==
    Merged =>
        IF ~resolveCall.exposeAllEnv
        THEN /\ \A i \in DOMAIN split(RepoDerived) : ~HasMarker(split(RepoDerived)[i])
             /\ SettingLines(RepoDerived)
                    = SelectSeq(SettingLines(RepoText), LAMBDA line : ~HasMarker(line))
        ELSE SelectSeq(SettingLines(RepoDerived), HasMarker)
                    = SelectSeq(SettingLines(RepoText), HasMarker)

\* C12 witness: a repository text with a marker line before a line without
\* one was merged without the flag.
C12_Witness ==
    /\ Merged /\ ~resolveCall.exposeAllEnv
    /\ RepoText = <<VAR, NL, KV, NL>>

\* What the interpolation filter leaves of a list of lines.
PastFilter(lines) ==
    SelectSeq(lines, LAMBDA line : resolveCall.exposeAllEnv \/ ~HasMarker(line))

\* C13: of a merged repository text, with either value of the flag and with
\* or without a marker in the text, no line that sets package-lock is left in
\* the repository-derived part, wherever it stood, and every other line that
\* the interpolation filter does not take is kept.
C13_PackageLockLinesRemoved ==
    Merged =>
        /\ \A i \in DOMAIN split(RepoDerived) : ~SetsPackageLock(split(RepoDerived)[i])
        /\ PastFilter(SettingLines(RepoDerived)) = PastFilter(SettingLines(RepoText))

\* C14: a found repository file, a caller text and merging disabled give the
\* caller text and the found file's name, whether the file can be read or not.
C14_CallerTextOverrides ==
    (ResolveDone /\ resolveCall.repo.exists
        /\ resolveCall.configNpmrc.isString /\ ~resolveCall.npmrcMerge)
        => /\ resolveCall.npmrc = resolveCall.configNpmrc
           /\ resolveCall.npmrcFileName = ".npmrc"

TrailingNewlines(t) ==
    Cardinality({ k \in 1..Len(t) : \A j \in (Len(t) - k + 1)..Len(t) : t[j] = NL })

\* C15: in a merged text the repository-derived part does not begin with a
\* newline after a caller part unless the repository text did, and it does
\* not end with more newlines than the repository text.
C15_NoSpuriousNewlines ==
    Merged =>
        /\ (ExpectedCallerPart # <<>> /\ RepoDerived # <<>> /\ RepoDerived[1] = NL)
              => (RepoText # <<>> /\ RepoText[1] = NL)
        /\ TrailingNewlines(RepoDerived) <= TrailingNewlines(RepoText)

\* C16: a merged text is the caller text, then one newline when the caller
\* text is not empty and does not end in one, then the filtered repository
\* text.
C16_NewlineNormalization ==
    Merged =>
        /\ resolveCall.npmrc.isString
        /\ resolveCall.npmrc.text
              = ExpectedCallerPart
                    \o StripVariables(StripPackageLock(RepoText), resolveCall.exposeAllEnv)
        /\ resolveCall.npmrcFileName = ".npmrc"

\* C16 witness: a caller text that ends in a newline was merged with a
\* repository text.
C16_Witness ==
    /\ Merged /\ resolveCall.npmrcMerge
    /\ CallerText = <<KV, NL>> /\ RepoText = <<KV, NL>>

\* C17: without a repository file the result is the caller's config text as
\* it is, or absent when there is none, and the file name is null, with either
\* value of the merge flag.
C17_NoFileReturnsCallerText ==
    (ResolveDone /\ ~resolveCall.repo.exists)
        => /\ resolveCall.npmrc = resolveCall.configNpmrc
           /\ resolveCall.npmrcFileName = Null

\* C17 witness: a text that a merge produced, without a newline of its own
\* to add, was given back with merging enabled and no repository file.
C17_Witness ==
    /\ ResolveDone /\ ~resolveCall.repo.exists
    /\ resolveCall.npmrcMerge
    /\ resolveCall.configNpmrc = Str(<<KV, NL, VAR, NL>>)

----------------------------------------------------------------------------
(* getRegistryNpmrcLines and getRegistryYarnrcScopes *)

MaxUpgrades == 2

\* upgrade.registryUrls: absent, or a list of strings.
NoRegistryUrls == [defined |-> FALSE, items |-> <<>>]
RegistryUrls(items) == [defined |-> TRUE, items |-> items]

R1 == Str(<<"https://r1/">>)
R2 == Str(<<"https://r2/">>)

RegistryUrlsChoices ==
    { NoRegistryUrls, RegistryUrls(<<>>), RegistryUrls(<<Str(<<>>)>>),
      RegistryUrls(<<R1>>), RegistryUrls(<<R2, R1>>) }

\* upgrade.depName: absent, empty, unscoped, scoped (two packages of one
\* scope, another scope, a scope named as a member of Object.prototype), and
\* a scope without a package.
DepNameChoices ==
    { Undefined, Str(<<>>), Str(<<"pkg">>),
      Str(<<"@", "a", "/", "x">>), Str(<<"@", "a", "/", "y">>),
      Str(<<"@", "b", "/", "x">>), Str(<<"@", "constructor", "/", "x">>),
      Str(<<"@", "a">>) }

Upgrades == [depName : DepNameChoices, registryUrls : RegistryUrlsChoices]

UpgradeLists == UNION { [1..n -> Upgrades] : n \in 0..MaxUpgrades }

\* upgrade.registryUrls?.[0] (lines 74, 109).
firstRegistryUrl(upgrade) ==
    IF upgrade.registryUrls.defined /\ Len(upgrade.registryUrls.items) > 0
    THEN upgrade.registryUrls.items[1]
    ELSE Undefined

isNonEmptyString(v) == v.isString /\ Len(v.text) > 0

startsWithAt(t) == Len(t) > 0 /\ t[1] = "@"

\* depName.split('/')[0] (lines 83, 119).
splitSlashFirst(t) ==
    LET slashes == { i \in DOMAIN t : t[i] = "/" }
    IN IF slashes = {} THEN t
       ELSE SubSeq(t, 1, (CHOOSE i \in slashes : \A j \in slashes : i <= j) - 1)

\* The guards of lines 75-81 and 110-116.
Skipped(upgrade) ==
    \/ ~isNonEmptyString(firstRegistryUrl(upgrade))
    \/ ~isNonEmptyString(upgrade.depName)
    \/ ~startsWithAt(upgrade.depName.text)

\* `${scope}:registry=${registryUrl}` (line 88).
RegistryLine(scope, registryUrl) == scope \o <<":registry=">> \o registryUrl.text

\* Mutant of getRegistryNpmrcLines: no seenScopes, one line per upgrade that
\* is not skipped.
getRegistryNpmrcLines_NoSeenScopes(upgrades) ==
    LET kept == SelectSeq(upgrades, LAMBDA u : ~Skipped(u))
    IN [k \in DOMAIN kept |->
           RegistryLine(splitSlashFirst(kept[k].depName.text), firstRegistryUrl(kept[k]))]

\* The loop of lines 73-89 from upgrade i on.
RECURSIVE NpmrcLinesLoop(_, _, _, _)
NpmrcLinesLoop(upgrades, i, seenScopes, lines) ==
    IF i > Len(upgrades) THEN lines
    ELSE LET upgrade == upgrades[i]
             scope == splitSlashFirst(upgrade.depName.text)
         IN IF Skipped(upgrade) \/ scope \in seenScopes
            THEN NpmrcLinesLoop(upgrades, i + 1, seenScopes, lines)
            ELSE NpmrcLinesLoop(upgrades, i + 1, seenScopes \cup {scope},
                                Append(lines, RegistryLine(scope, firstRegistryUrl(upgrade))))

\* Lines 69-92.
getRegistryNpmrcLines(upgrades) == NpmrcLinesLoop(upgrades, 1, {}, <<>>)

\* The names that every plain object has through Object.prototype.
ObjectPrototypeKeys ==
    { <<"constructor">>, <<"__proto__">>, <<"toString">>, <<"valueOf">>,
      <<"hasOwnProperty">>, <<"isPrototypeOf">>, <<"propertyIsEnumerable">>,
      <<"toLocaleString">> }

\* `scope in scopes` on the plain object of line 106 (line 120): own keys and
\* the keys of the prototype chain.
In(scope, scopes) == scope \in DOMAIN scopes \/ scope \in ObjectPrototypeKeys

\* .slice(1) (line 119).
slice1(t) == SubSeq(t, 2, Len(t))

\* The loop of lines 108-124 from upgrade i on; scopes maps a key to its
\* npmRegistryServer.
RECURSIVE YarnrcScopesLoop(_, _, _)
YarnrcScopesLoop(upgrades, i, scopes) ==
    IF i > Len(upgrades) THEN scopes
    ELSE LET upgrade == upgrades[i]
             scope == slice1(splitSlashFirst(upgrade.depName.text))
         IN IF Skipped(upgrade) \/ In(scope, scopes)
            THEN YarnrcScopesLoop(upgrades, i + 1, scopes)
            ELSE YarnrcScopesLoop(upgrades, i + 1,
                    [k \in DOMAIN scopes \cup {scope} |->
                        IF k = scope THEN firstRegistryUrl(upgrade) ELSE scopes[k]])

NoYarnrcScopes == [defined |-> FALSE, npmScopes |-> <<>>]

\* Lines 103-131.
getRegistryYarnrcScopes(upgrades) ==
    LET scopes == YarnrcScopesLoop(upgrades, 1, <<>>)
    IN IF Cardinality(DOMAIN scopes) = 0
       THEN NoYarnrcScopes
       ELSE [defined |-> TRUE, npmScopes |-> scopes]

\* One upgrade list, given to both functions.
ScopeCalls ==
    [upgrades : UpgradeLists,
     linesReturned : {FALSE}, lines : {<<>>},
     yarnrcReturned : {FALSE}, yarnrc : {NoYarnrcScopes}]

InitScopes ==
    /\ NoNugetRequests
    /\ resolveCall = NoResolveCall
    /\ scopeCall \in ScopeCalls

GetRegistryNpmrcLines ==
    /\ ~scopeCall.linesReturned
    /\ scopeCall' = [scopeCall EXCEPT !.linesReturned = TRUE,
                        !.lines = getRegistryNpmrcLines(scopeCall.upgrades)]
    /\ UNCHANGED <<nugetVars, resolveCall>>

GetRegistryYarnrcScopes ==
    /\ ~scopeCall.yarnrcReturned
    /\ scopeCall' = [scopeCall EXCEPT !.yarnrcReturned = TRUE,
                        !.yarnrc = getRegistryYarnrcScopes(scopeCall.upgrades)]
    /\ UNCHANGED <<nugetVars, resolveCall>>

NextScopes == GetRegistryNpmrcLines \/ GetRegistryYarnrcScopes

SpecScopes == InitScopes /\ [][NextScopes]_vars

----------------------------------------------------------------------------
(* Properties of the registry scopes *)

\* An upgrade qualifies with a non-empty first registry URL and a non-empty
\* dependency name that starts with '@'.
Qualifies(u) ==
    /\ u.registryUrls.defined /\ u.registryUrls.items # <<>>
    /\ u.registryUrls.items[1].isString /\ u.registryUrls.items[1].text # <<>>
    /\ u.depName.isString /\ u.depName.text # <<>> /\ u.depName.text[1] = "@"

\* The scope of a dependency name: what stands before its first '/'.
ScopeOf(u) ==
    LET name == u.depName.text
        n == Cardinality({ i \in DOMAIN name : \A j \in 1..i : name[j] # "/" })
    IN SubSeq(name, 1, n)

\* The positions of the first qualifying upgrade of each scope.
FirstSeen ==
    LET ups == scopeCall.upgrades
    IN { i \in DOMAIN ups :
            /\ Qualifies(ups[i])
            /\ \A j \in 1..(i - 1) : Qualifies(ups[j]) => ScopeOf(ups[j]) # ScopeOf(ups[i]) }

\* The k-th of them, in the order of the list.
FirstSeenAt(k) ==
    CHOOSE i \in FirstSeen : Cardinality({ j \in FirstSeen : j <= i }) = k

\* C18: getRegistryNpmrcLines returns one line '<scope>:registry=<url>' for
\* each distinct scope, in the order of the first qualifying upgrade of each
\* scope, with the first registry URL of that upgrade; later upgrades of the
\* scope add no line and change no url.
C18_OneLinePerFirstSeenScope ==
    scopeCall.linesReturned =>
        /\ Len(scopeCall.lines) = Cardinality(FirstSeen)
        /\ \A k \in DOMAIN scopeCall.lines :
              LET u == scopeCall.upgrades[FirstSeenAt(k)]
              IN scopeCall.lines[k]
                    = ScopeOf(u) \o <<":registry=">> \o u.registryUrls.items[1].text

\* C18 witness: two qualifying upgrades of one scope with different first
\* registry URLs gave the one line of the first.
C18_Witness ==
    /\ scopeCall.linesReturned
    /\ Len(scopeCall.upgrades) = 2
    /\ Qualifies(scopeCall.upgrades[1]) /\ Qualifies(scopeCall.upgrades[2])
    /\ ScopeOf(scopeCall.upgrades[1]) = ScopeOf(scopeCall.upgrades[2])
    /\ scopeCall.upgrades[1].registryUrls.items[1]
          # scopeCall.upgrades[2].registryUrls.items[1]
    /\ Len(scopeCall.lines) = 1

\* The scope and the url of a line '<scope>:registry=<url>'.
LineScope(line) == SubSeq(line, 1, (CHOOSE i \in DOMAIN line : line[i] = ":registry=") - 1)
LineUrl(line) ==
    SubSeq(line, (CHOOSE i \in DOMAIN line : line[i] = ":registry=") + 1, Len(line))

\* C19: getRegistryYarnrcScopes returns an absent value exactly when the line
\* form of the same upgrades is empty, never an empty mapping, and otherwise
\* its keys are the scopes of the lines without the leading '@', each mapped
\* to the url of its line.
C19_YarnrcScopesMatchLines ==
    (scopeCall.linesReturned /\ scopeCall.yarnrcReturned) =>
        LET lines == scopeCall.lines
            yarnrc == scopeCall.yarnrc
        IN /\ ~yarnrc.defined <=> lines = <<>>
           /\ yarnrc.defined =>
                /\ DOMAIN yarnrc.npmScopes # {}
                /\ DOMAIN yarnrc.npmScopes
                      = { Tail(LineScope(lines[k])) : k \in DOMAIN lines }
                /\ \A k \in DOMAIN lines :
                      yarnrc.npmScopes[Tail(LineScope(lines[k]))].text = LineUrl(lines[k])

----------------------------------------------------------------------------
(* Order of the steps of updateArtifacts *)

\* The step of a request in which the call is passed.
Passes(r, call) == ~Called(r, call) /\ Called(r, call)'

\* The step of a request in which a toolchain command starts.
CommandStarts(r) == started'[r] # started[r]

\* C20: the 'before' snapshot is read before the manifest is written; the
\* manifest and the config artifact are written before a toolchain command
\* starts; the 'after' snapshot is read only after the last command of the
\* list has finished, and no command starts after it; the manifest is written
\* at most once for a request.
C20_FixedStepOrder ==
    [][\A r \in Reqs :
          /\ manifestWrites'[r] # manifestWrites[r]
                => /\ Completed(r, "getFiles")
                   /\ started[r] = <<>>
                   /\ ~Called(r, "getLocalFiles")
          /\ CommandStarts(r)
                => /\ Completed(r, "getFiles")
                   /\ manifestWrites[r] = 1
                   /\ cacheFiles[cmds[r][Len(started[r]) + 1].configfile] # NoFile
                   /\ ~Called(r, "getLocalFiles")
          /\ Passes(r, "getLocalFiles")
                => /\ Len(started[r]) = Len(cmds[r])
                   /\ Completed(r, "exec")
                   /\ ~CommandStarts(r)
          /\ Called(r, "getLocalFiles") => ~CommandStarts(r)
          /\ manifestWrites'[r] <= 1
      ]_vars

\* C20 witness: a request ran two toolchain commands and then read the
\* 'after' snapshot.
C20_Witness ==
    \E r \in Reqs :
        /\ Len(started[r]) = 2
        /\ Completed(r, "getLocalFiles")
        /\ manifestWrites[r] = 1

----------------------------------------------------------------------------
(* The registry list of the config artifact *)

MaxUrls == 2            \* longest list of registry URLs or configured registries

\* A configured registry has a name besides its url.
NamedRegistry(u, n) == [url |-> u, name |-> n]

\* Lists of URLs up to MaxUrls, over the given URLs.
UrlLists(urls) == UNION { [1..n -> urls] : n \in 0..MaxUrls }

\* The lists that getConfiguredRegistries may return: the configured
\* registries, each named by its place; a url may be empty or repeated.
RECURSIVE NamedFrom(_, _)
NamedFrom(l, i) ==
    IF Len(l) = 0 THEN <<>>
    ELSE <<NamedRegistry(Head(l), i)>> \o NamedFrom(Tail(l), i + 1)

ConfiguredRegistryLists ==
    { NamedFrom(l, 1) : l \in UrlLists({ "", "https://r1", "https://r2" }) }

\* Upgrade lists: none, one upgrade, or one upgrade before another that
\* names "https://r1" after an empty URL; a URL may be empty, repeated, or
\* the one of the default registry.
RegistryUpgradeLists ==
    LET lists == UrlLists({ "", "https://r1", getDefaultRegistries[1].url })
    IN { <<>> } \cup
       { << Upgrade("Serilog", l) >> : l \in lists } \cup
       { << Upgrade("Serilog", l), Upgrade("Moq", <<"", "https://r1">>) >> : l \in lists }

\* One request for a/app.csproj that passes both gates, with every upgrade
\* list above.
InitRegistries ==
    /\ InitWith({1}, { <<"a", "app.csproj">> }, RegistryUpgradeLists,
                { [isLockFileMaintenance |-> TRUE, postUpdateOptions |-> {}] },
                { [n \in AllLockNames |-> "v1"] },
                { << [name |-> <<"a", "app.csproj">>, isLeaf |-> TRUE] >> })
    /\ NoNpmCalls

\* runDotnetRestore where getConfiguredRegistries finds no configuration, or
\* one of the lists above.
RunDotnetRestoreConfigured(r) ==
    \/ RunDotnetRestoreWith(r, Null)
    \/ \E configured \in ConfiguredRegistryLists : RunDotnetRestoreWith(r, configured)

NextRegistries ==
    \E r \in Reqs :
        \/ Start(r)
        \/ GetDependentPackageFiles(r)
        \/ GetDependentPackageFilesFails(r)
        \/ GetFiles(r)
        \/ GetFilesFails(r)
        \/ WriteLocalFile(r)
        \/ WriteLocalFileFails(r)
        \/ RunDotnetRestoreConfigured(r)
        \/ RunDotnetRestoreFails(r)
        \/ ExecCmd(r)
        \/ ExecCmdFails(r)
        \/ ExecReturns(r)
        \/ GetLocalFiles(r)
        \/ GetLocalFilesFails(r)

SpecRegistries == InitRegistries /\ [][NextRegistries]_vars

\* The registry list in the config artifact of the request.
WrittenRegistries(r) == cacheFiles[cmds[r][1].configfile].registries

\* The registries the list starts from: the configured ones, or the defaults
\* of the ecosystem when the lookup found no configuration.
BaseRegistries(r) ==
    IF configuredFound[r] = Null THEN getDefaultRegistries
    ELSE configuredFound[r]

\* The registry URLs of the upgrades, in the order of the upgrades.
RECURSIVE UpgradeUrls(_)
UpgradeUrls(ud) ==
    IF ud = <<>> THEN <<>> ELSE Head(ud).registryUrls \o UpgradeUrls(Tail(ud))

\* The candidates of the list: the base registries, then one entry with just
\* the url for each upgrade URL.
Candidates(r) ==
    LET urls == UpgradeUrls(updatedDeps[r])
    IN BaseRegistries(r) \o [i \in DOMAIN urls |-> [url |-> urls[i]]]

\* The places of the candidates that are the first of their non-empty url.
FirstOfUrl(r) ==
    LET c == Candidates(r)
    IN { k \in DOMAIN c :
            c[k].url # "" /\ \A j \in 1..(k - 1) : c[j].url # c[k].url }

FirstOfUrlAt(r, i) ==
    CHOOSE k \in FirstOfUrl(r) : Cardinality({ j \in FirstOfUrl(r) : j <= k }) = i

\* C21: the registry list written into the config artifact has no two entries
\* with one URL and no entry with an empty URL; it is the configured
\* registries (the defaults when nothing is configured) in their order, then
\* the upgrade registry URLs not yet in it, of each URL the first entry; every
\* non-empty upgrade registry URL is in it exactly once.
C21_RegistryListDeduplicated ==
    \A r \in Reqs :
        Completed(r, "runDotnetRestore") =>
            LET list == WrittenRegistries(r)
                urls == UpgradeUrls(updatedDeps[r])
            IN /\ \A i, j \in DOMAIN list : list[i].url = list[j].url => i = j
               /\ \A i \in DOMAIN list : list[i].url # ""
               /\ Len(list) = Cardinality(FirstOfUrl(r))
               /\ \A i \in DOMAIN list : list[i] = Candidates(r)[FirstOfUrlAt(r, i)]
               /\ \A k \in DOMAIN urls :
                     urls[k] # ""
                        => Cardinality({ i \in DOMAIN list : list[i].url = urls[k] }) = 1

\* C21 witness: two configured registries of one URL, which an upgrade names
\* too next to an empty URL and the URL of another registry, gave a list of
\* two entries that starts with the first configured one.
C21_Witness ==
    \E r \in Reqs :
        /\ Completed(r, "runDotnetRestore")
        /\ configuredFound[r] # Null
        /\ configuredFound[r]
              = << NamedRegistry("https://r1", 1), NamedRegistry("https://r1", 2) >>
        /\ Len(updatedDeps[r]) = 2
        /\ updatedDeps[r][1].registryUrls = << getDefaultRegistries[1].url, "https://r1" >>
        /\ Len(WrittenRegistries(r)) = 2
        /\ WrittenRegistries(r)[1] = NamedRegistry("https://r1", 1)

----------------------------------------------------------------------------
(* Failures before the recoverable boundary *)

\* The calls made before the recoverable boundary is entered.
BeforeBoundary(call) == call \in {"getDependentPackageFiles", "getFiles"}

\* C22: a failure raised by the dependent-file lookup or by the 'before'
\* snapshot read reaches the caller as that failure, whatever its message;
\* the request returns no value, so no ArtifactError; the manifest is not
\* written and no toolchain command is started.
C22_EarlyFailurePropagates ==
    \A r \in Reqs :
        BeforeBoundary(raised[r].at)
            => /\ pc[r] = "done"
               /\ thrown[r] = raised[r].err
               /\ result[r] = Pending
               /\ manifestWrites[r] = 0 /\ ~Called(r, "writeLocalFile")
               /\ ~Called(r, "runDotnetRestore")
               /\ started[r] = <<>> /\ cmds[r] = <<>>

\* C22 witness: the 'before' snapshot read of a request with upgrades failed
\* with a message that is not the temporary-failure marker.
C22_Witness ==
    \E r \in Reqs :
        /\ Failed(r, "getFiles")
        /\ raised[r].err.message # TEMPORARY_ERROR
        /\ Len(updatedDeps[r]) > 0
        /\ thrown[r] = raised[r].err

====
